---- MODULE Spec2Model ----
(***************************************************************************)
(* uncurl: a 1D stream of RGB elements is laid out on a square power-of-   *)
(* two grid along a Hilbert curve drawn by a small L-system interpreter    *)
(* (lindenmayer_system_next_coord), and a reverse index maps a grid cell   *)
(* back to the position in the stream.                                     *)
(*                                                                         *)
(* The model follows src/uncurl.c: the grid sizing loop of main, the       *)
(* interpreter one loop iteration per action, the loop of main that        *)
(* scatters the payload and fills the reverse index, and the click lookup. *)
(***************************************************************************)
EXTENDS Integers, Sequences, FiniteSets, TLC

----------------------------------------------------------------------------
(* Bounds of the model                                                     *)

\* largest input_length (elements) of the whole-program specification
MaxN == 17
\* largest depth handed to lindenmayer_system_init in the engine specification
MaxDepth == 4
\* largest input_length of the grid sizing specification
MaxAllocN == 10000
\* the grid sizing loop is followed up to this width_log2
MaxWidthLog2 == 20

----------------------------------------------------------------------------
(* Program constants and the rule table                                    *)

\* memset(reverse, -1, ...): every byte 0xff; read back through
\* "const int iii = reverse[ii]" this is -1
UNSET == 0 - 1

\* calloc'ed image cell that no payload element was copied into
BLANK == 0 - 1

\* the two rules main hands to lindenmayer_system_init, one op per element
HilbertRules ==
    << <<"+", "1", "^", "-", "0", "^", "0", "-", "^", "1", "+">>,
       <<"-", "0", "^", "+", "1", "^", "1", "+", "^", "0", "-">> >>

Digits == {"0", "1", "2", "3", "4", "5", "6", "7", "8", "9"}

\* op - '0'; 'x' is 120, '!' is 33, '0' is 48
DigitValue(op) ==
    CASE op = "0" -> 0 [] op = "1" -> 1 [] op = "2" -> 2 [] op = "3" -> 3
      [] op = "4" -> 4 [] op = "5" -> 5 [] op = "6" -> 6 [] op = "7" -> 7
      [] op = "8" -> 8 [] op = "9" -> 9
      [] op = "x" -> 72 [] op = "!" -> 0 - 15

\* 1 << k
Shl1(k) == 2 ^ k

\* bits of an int, the type of width_log2, width, n_pixels and of 1 << k
IntBits == 32

\* what 1 << k can be in an int.  Up to k = 30 it is 2^k.  From k = 32 on
\* the shift is undefined: the builds at hand either use the low five bits
\* of the count (x86 shl) or shift every bit out.  (k = 31 does not occur,
\* the counts of the program below 32 are even or at most 15.)
ShlOutcomes(k) ==
    IF k < IntBits - 1 THEN {Shl1(k)} ELSE {Shl1(k % IntBits), 0}

VARIABLES
    pc,              \* control position, see below
    asserts_enabled, \* FALSE: built with NDEBUG, assert() expands to nothing
    input_length,    \* main: number of elements of the input
    width_log2,      \* main
    width,           \* main
    n_pixels,        \* main
    image,           \* main: cell -> index of the payload element copied into it
    reverse,         \* main: cell -> point_index, or UNSET
    rp,              \* main: read pointer into data, in elements
    point_index,     \* main
    px, py,          \* main: out parameters of next_coord
    ret,             \* value returned by the last lindenmayer_system_next_coord
    n_rules, rules,  \* lsys
    depth,           \* lsys
    stack,           \* lsys: stack[0 .. stack_height-1], bottom first
    state,           \* lsys
    x, y, direction, \* lsys
    emitted,         \* history: the coordinates next_coord returned, in order
    failed,          \* the assertion that failed, or "none"
    clicked          \* result of the last click lookup

mainVars == <<input_length, width_log2, width, n_pixels>>
gridVars == <<image, reverse, rp, point_index>>
lsysVars == <<n_rules, rules, depth, stack, state, x, y, direction>>
vars == <<pc, asserts_enabled, mainVars, gridVars, px, py, ret, lsysVars,
          emitted, failed, clicked>>

(* pc:  "alloc"   main is in the grid sizing loop (line 277)               *)
(*      "init"    grid size known, buffers and lsys not yet set up         *)
(*      "call"    the caller is about to call next_coord                   *)
(*      "loop"    inside next_coord, at the head of for(;;) (line 146)     *)
(*      "ret"     next_coord has returned ret                              *)
(*      "built"   the loop of main has ended; the event loop runs          *)
(*      "aborted" an assert failed                                         *)
(*      "corrupt" a write outside image/reverse happened (NDEBUG build)    *)

stack_height == Len(stack)

\* ARRAY_LENGTH(lsys->stack) and ARRAY_LENGTH(lsys->rules): 1<<8
StackCapacity == 256

----------------------------------------------------------------------------
(* Grid sizing, main lines 274-279                                         *)

\* the condition of the while loop at line 277, v the value of
\* 1 << (2*width_log2)
AllocMustGrowOffByOne(v, n) == v <= n
AllocMustGrow(v, n) == v < n

AllocStep ==
    /\ pc = "alloc"
    /\ width_log2 < MaxWidthLog2
    /\ \E v \in ShlOutcomes(2 * width_log2) : AllocMustGrow(v, input_length)
    /\ width_log2' = width_log2 + 1
    /\ UNCHANGED <<pc, asserts_enabled, input_length, width, n_pixels, gridVars,
                   px, py, ret, lsysVars, emitted, failed, clicked>>

AllocDone ==
    /\ pc = "alloc"
    /\ \E v \in ShlOutcomes(2 * width_log2) : ~AllocMustGrow(v, input_length)
    /\ width' \in ShlOutcomes(width_log2)
    /\ n_pixels' \in ShlOutcomes(2 * width_log2)
    /\ pc' = "init"
    /\ UNCHANGED <<asserts_enabled, input_length, width_log2, gridVars,
                   px, py, ret, lsysVars, emitted, failed, clicked>>

\* lines 281-296: calloc image, calloc + memset reverse, lindenmayer_system_init
\* with depth = width_log2, then rp = data, point_index = 0
BuildInit ==
    /\ pc = "init"
    /\ image' = [c \in 0 .. n_pixels - 1 |-> BLANK]
    /\ reverse' = [c \in 0 .. n_pixels - 1 |-> UNSET]
    /\ rp' = 0
    /\ point_index' = 0
    /\ n_rules' = Len(HilbertRules)
    /\ rules' = HilbertRules
    /\ depth' = width_log2
    /\ stack' = << >>
    /\ state' = 0
    /\ x' = 0 /\ y' = 0 /\ direction' = 0
    /\ pc' = "call"
    /\ UNCHANGED <<asserts_enabled, mainVars, px, py, ret, emitted, failed, clicked>>

----------------------------------------------------------------------------
(* lindenmayer_system_next_coord, lines 132-200                            *)

Top == stack[stack_height]

\* line 152: 0 <= e->rule_index && e->rule_index < lsys->n_rules
RuleIndexValidOffByOne(e) == 0 <= e.rule_index /\ e.rule_index <= n_rules
RuleIndexValid(e) == 0 <= e.rule_index /\ e.rule_index < n_rules

\* line 152 as the build has it: with NDEBUG the assert is not there
FrameAsserted(e) == asserts_enabled => RuleIndexValid(e)

\* rule->length of the rule of frame e; the entries of lsys->rules from
\* n_rules on were zeroed by the memset of line 122, their length is 0
RuleLength(e) ==
    IF e.rule_index < n_rules THEN Len(rules[e.rule_index + 1]) ELSE 0

\* rule->ops[e->pc]
OpAt(e) == rules[e.rule_index + 1][e.pc + 1]

\* line 154: the frame has run past the end of its rule
FrameDone(e) == e.pc >= RuleLength(e)

\* lines 167-171, the x of the position after a move in direction d
MoveX(d, cx) ==
    CASE d = 0 -> cx + 1
      [] d = 2 -> cx - 1
      [] OTHER -> cx

\* lines 167-171, the y of the position after a move in direction d
MoveYDouble(d, cy) ==
    CASE d = 1 -> cy + 2
      [] d = 3 -> cy - 2
      [] OTHER -> cy
MoveY(d, cy) ==
    CASE d = 1 -> cy + 1
      [] d = 3 -> cy - 1
      [] OTHER -> cy

\* line 179: (direction + 1) & 3
TurnPlusNoWrap(d) == d + 1
TurnPlus(d) == (d + 1) % 4

\* line 182: (direction + 3) & 3
TurnMinusAsPlus(d) == (d + 1) % 4
TurnMinus(d) == (d + 3) % 4

\* lines 165-184: the ops with a case of their own; any other op takes the
\* default case
OwnCase == {"^", "+", "-"}

\* line 185 as the build has it: '0' <= op && op <= '9'
OpAsserted(op) == asserts_enabled => op \in Digits

\* line 189: an invoke pushes a frame only while the stack is below depth
CanPushOneMore(h, dep) == h <= dep
CanPush(h, dep) == h < dep

\* line 189: new_rule_index >= 0 && lsys->stack_height < lsys->depth
WouldPush(op, h, dep) == DigitValue(op) >= 0 /\ CanPush(h, dep)

\* lines 191-193
PushAndAdvance(stk, k) ==
    Append([stk EXCEPT ![Len(stk)] = [@ EXCEPT !.pc = @ + 1]],
           [rule_index |-> k, pc |-> 0])
Push(stk, k) == Append(stk, [rule_index |-> k, pc |-> 0])

\* line 196 (and 157): pc++ of the topmost frame of stk
AdvanceTopTwice(stk) ==
    [stk EXCEPT ![Len(stk)] = [@ EXCEPT !.pc = @ + 2]]
AdvanceTop(stk) ==
    [stk EXCEPT ![Len(stk)] = [@ EXCEPT !.pc = @ + 1]]

\* lines 155-158: drop the top frame, then pc++ of the frame below, if any
PopNoAdvance(stk) == SubSeq(stk, 1, Len(stk) - 1)
PopAdvancesParentTwice(stk) ==
    LET rest == SubSeq(stk, 1, Len(stk) - 1)
    IN  IF Len(rest) > 0
        THEN [rest EXCEPT ![Len(rest)] = [@ EXCEPT !.pc = @ + 2]]
        ELSE rest
Pop(stk) ==
    LET rest == SubSeq(stk, 1, Len(stk) - 1)
    IN  IF Len(rest) > 0 THEN AdvanceTop(rest) ELSE rest

\* line 134: the engine is exhausted, nothing is emitted
NextCoordExhausted ==
    /\ pc = "call"
    /\ state >= 2
    /\ ret' = 0
    /\ pc' = "ret"
    /\ UNCHANGED <<asserts_enabled, mainVars, gridVars, px, py, lsysVars,
                   emitted, failed, clicked>>

\* lines 139-141: the stack the first call leaves
SeedStackPastFirstOp == <<[rule_index |-> 0, pc |-> 1]>>
SeedStack == <<[rule_index |-> 0, pc |-> 0]>>

\* lines 135-144: the first call emits the origin and seeds the stack
NextCoordFirst ==
    /\ pc = "call"
    /\ state = 0
    /\ px' = 0 /\ py' = 0
    /\ stack' = SeedStack
    /\ state' = 1
    /\ ret' = 1
    /\ emitted' = Append(emitted, <<0, 0>>)
    /\ pc' = "ret"
    /\ UNCHANGED <<asserts_enabled, mainVars, gridVars, n_rules, rules, depth,
                   x, y, direction, failed, clicked>>

\* line 145: a later call enters the interpreter loop
NextCoordResume ==
    /\ pc = "call"
    /\ state = 1
    /\ pc' = "loop"
    /\ UNCHANGED <<asserts_enabled, mainVars, gridVars, px, py, ret, lsysVars,
                   emitted, failed, clicked>>

\* lines 147-150 without line 148: returns 0 but stays in state 1
LoopExhaustKeepsState ==
    /\ pc = "loop"
    /\ stack_height = 0
    /\ ret' = 0
    /\ pc' = "ret"
    /\ UNCHANGED <<asserts_enabled, mainVars, gridVars, px, py, lsysVars,
                   emitted, failed, clicked>>

\* lines 147-150: empty stack, the engine becomes exhausted
LoopExhaust ==
    /\ pc = "loop"
    /\ stack_height = 0
    /\ state' = 2
    /\ ret' = 0
    /\ pc' = "ret"
    /\ UNCHANGED <<asserts_enabled, mainVars, gridVars, px, py, n_rules, rules,
                   depth, stack, x, y, direction, emitted, failed, clicked>>

\* lines 154-160: the top frame is finished
LoopPop ==
    /\ pc = "loop"
    /\ stack_height > 0
    /\ FrameAsserted(Top)
    /\ FrameDone(Top)
    /\ stack' = Pop(stack)
    /\ UNCHANGED <<pc, asserts_enabled, mainVars, gridVars, px, py, ret, n_rules,
                   rules, depth, state, x, y, direction, emitted, failed, clicked>>

\* lines 166-177, 194-198: '^' moves one unit, emits the position and returns
LoopMove ==
    /\ pc = "loop"
    /\ stack_height > 0
    /\ FrameAsserted(Top)
    /\ ~FrameDone(Top)
    /\ OpAt(Top) = "^"
    /\ x' = MoveX(direction, x)
    /\ y' = MoveY(direction, y)
    /\ px' = x' /\ py' = y'
    /\ stack' = AdvanceTop(stack)
    /\ ret' = 1
    /\ emitted' = Append(emitted, <<x', y'>>)
    /\ pc' = "ret"
    /\ UNCHANGED <<asserts_enabled, mainVars, gridVars, n_rules, rules, depth,
                   state, direction, failed, clicked>>

\* lines 178-180, 194-197
LoopTurnPlus ==
    /\ pc = "loop"
    /\ stack_height > 0
    /\ FrameAsserted(Top)
    /\ ~FrameDone(Top)
    /\ OpAt(Top) = "+"
    /\ direction' = TurnPlus(direction)
    /\ stack' = AdvanceTop(stack)
    /\ UNCHANGED <<pc, asserts_enabled, mainVars, gridVars, px, py, ret, n_rules,
                   rules, depth, state, x, y, emitted, failed, clicked>>

\* lines 181-183, 194-197
LoopTurnMinus ==
    /\ pc = "loop"
    /\ stack_height > 0
    /\ FrameAsserted(Top)
    /\ ~FrameDone(Top)
    /\ OpAt(Top) = "-"
    /\ direction' = TurnMinus(direction)
    /\ stack' = AdvanceTop(stack)
    /\ UNCHANGED <<pc, asserts_enabled, mainVars, gridVars, px, py, ret, n_rules,
                   rules, depth, state, x, y, emitted, failed, clicked>>

\* lines 184-193: a digit invokes a rule; below depth a frame is pushed
LoopInvokePush ==
    /\ pc = "loop"
    /\ stack_height > 0
    /\ FrameAsserted(Top)
    /\ ~FrameDone(Top)
    /\ OpAt(Top) \notin OwnCase
    /\ OpAsserted(OpAt(Top))
    /\ WouldPush(OpAt(Top), stack_height, depth)
    /\ stack' = Push(stack, DigitValue(OpAt(Top)))
    /\ UNCHANGED <<pc, asserts_enabled, mainVars, gridVars, px, py, ret, n_rules,
                   rules, depth, state, x, y, direction, emitted, failed, clicked>>

\* lines 184-188, 194-197: at depth (or, with NDEBUG, for an op below '0')
\* the default case only advances the pc
LoopInvokeSkip ==
    /\ pc = "loop"
    /\ stack_height > 0
    /\ FrameAsserted(Top)
    /\ ~FrameDone(Top)
    /\ OpAt(Top) \notin OwnCase
    /\ OpAsserted(OpAt(Top))
    /\ ~WouldPush(OpAt(Top), stack_height, depth)
    /\ stack' = AdvanceTop(stack)
    /\ UNCHANGED <<pc, asserts_enabled, mainVars, gridVars, px, py, ret, n_rules,
                   rules, depth, state, x, y, direction, emitted, failed, clicked>>

\* line 152 with assert() compiled in: the top frame names no rule
LoopAssertRuleIndex ==
    /\ pc = "loop"
    /\ stack_height > 0
    /\ ~FrameAsserted(Top)
    /\ failed' = "0 <= e->rule_index && e->rule_index < lsys->n_rules"
    /\ pc' = "aborted"
    /\ UNCHANGED <<asserts_enabled, mainVars, gridVars, px, py, ret, lsysVars,
                   emitted, clicked>>

\* line 185 with assert() compiled in: the op is none of '^', '+', '-', digit
LoopAssertOp ==
    /\ pc = "loop"
    /\ stack_height > 0
    /\ FrameAsserted(Top)
    /\ ~FrameDone(Top)
    /\ OpAt(Top) \notin OwnCase
    /\ ~OpAsserted(OpAt(Top))
    /\ failed' = "'0' <= op && op <= '9'"
    /\ pc' = "aborted"
    /\ UNCHANGED <<asserts_enabled, mainVars, gridVars, px, py, ret, lsysVars,
                   emitted, clicked>>

NextCoord ==
    \/ NextCoordFirst
    \/ NextCoordResume
    \/ LoopExhaust
    \/ LoopPop
    \/ LoopMove
    \/ LoopTurnPlus
    \/ LoopTurnMinus
    \/ LoopInvokePush
    \/ LoopInvokeSkip

----------------------------------------------------------------------------
(* The loop of main that draws the curve, lines 297-310                    *)

\* line 302 and 303: 0 <= p && p < width
CoordInRange(p, w) == 0 <= p /\ p < w

\* line 304: (py << width_log2) + px
ImageIndex(cx, cy, wl2) == cy * Shl1(wl2) + cx

\* line 305: 0 <= image_index && image_index < n_pixels
IndexInRange(i, n) == 0 <= i /\ i < n

\* the three asserts of lines 302, 303 and 305
BuilderAssertsHold ==
    /\ CoordInRange(px, width)
    /\ CoordInRange(py, width)
    /\ IndexInRange(ImageIndex(px, py, width_log2), n_pixels)

\* the first assert of lines 302-305 that fails
FailedAssert ==
    IF ~CoordInRange(px, width) THEN "0 <= px && px < width"
    ELSE IF ~CoordInRange(py, width) THEN "0 <= py && py < width"
    ELSE "0 <= image_index && image_index < n_pixels"

\* line 308: reverse[image_index] = point_index++ stores the value before
\* the increment
ReverseEntryPreIncrement(pi) == pi + 1
ReverseEntry(pi) == pi

\* lines 306-308: element rp of data goes to the cell, the cell's reverse
\* entry becomes point_index. data holds input_length elements; an element
\* read at rp >= input_length lies behind the input and is recorded as such.
BuilderStore ==
    /\ pc = "ret"
    /\ ret = 1
    /\ IF asserts_enabled
       THEN BuilderAssertsHold
       ELSE IndexInRange(ImageIndex(px, py, width_log2), n_pixels)
    /\ image' = [image EXCEPT ![ImageIndex(px, py, width_log2)] = rp]
    /\ rp' = rp + 1
    /\ reverse' = [reverse EXCEPT ![ImageIndex(px, py, width_log2)] = ReverseEntry(point_index)]
    /\ point_index' = point_index + 1
    /\ pc' = "call"
    /\ UNCHANGED <<asserts_enabled, mainVars, px, py, ret, lsysVars, emitted,
                   failed, clicked>>

\* lines 302-305 with assert() compiled in: the program aborts
BuilderAssertFail ==
    /\ pc = "ret"
    /\ ret = 1
    /\ asserts_enabled
    /\ ~BuilderAssertsHold
    /\ failed' = FailedAssert
    /\ pc' = "aborted"
    /\ UNCHANGED <<asserts_enabled, mainVars, gridVars, px, py, ret, lsysVars,
                   emitted, clicked>>

\* lines 306-308 with NDEBUG: a store outside image and reverse; what the
\* program does from there on is undefined, the model stops
BuilderStoreOutside ==
    /\ pc = "ret"
    /\ ret = 1
    /\ ~asserts_enabled
    /\ ~IndexInRange(ImageIndex(px, py, width_log2), n_pixels)
    /\ pc' = "corrupt"
    /\ UNCHANGED <<asserts_enabled, mainVars, gridVars, px, py, ret, lsysVars,
                   emitted, failed, clicked>>

\* line 301: next_coord returned 0, the while loop ends
BuilderExit ==
    /\ pc = "ret"
    /\ ret = 0
    /\ pc' = "built"
    /\ UNCHANGED <<asserts_enabled, mainVars, gridVars, px, py, ret, lsysVars,
                   emitted, failed, clicked>>

----------------------------------------------------------------------------
(* The click lookup, lines 343-378.  lx and ly (after lines 350-351) are   *)
(* doubles; the model draws them in half units, lx = lx2 / 2.              *)

\* line 352: 0 <= lx && lx <= width && 0 <= ly && ly <= width
ClickAccepted(lx2, ly2, w) ==
    /\ 0 <= lx2 /\ lx2 <= 2 * w
    /\ 0 <= ly2 /\ ly2 <= 2 * w

\* lines 353-354: const int ix = lx (truncation of a non-negative double)
ToInt(l2) == l2 \div 2

\* lines 355-358, 375: the index the click yields, if any
ClickLookup(lx2, ly2) ==
    LET ii == ImageIndex(ToInt(lx2), ToInt(ly2), width_log2)
    IN  IF ClickAccepted(lx2, ly2, width) /\ IndexInRange(ii, n_pixels)
           /\ reverse[ii] >= 0
        THEN [hit |-> TRUE, index |-> reverse[ii]]
        ELSE [hit |-> FALSE, index |-> UNSET]

Click ==
    /\ pc = "built"
    /\ \E lx2 \in (0 - 1) .. (2 * width + 1), ly2 \in (0 - 1) .. (2 * width + 1) :
         clicked' = << [lx2 |-> lx2, ly2 |-> ly2] @@ ClickLookup(lx2, ly2) >>
    /\ UNCHANGED <<pc, asserts_enabled, mainVars, gridVars, px, py, ret, lsysVars,
                   emitted, failed>>

----------------------------------------------------------------------------
(* The whole program                                                       *)

\* values of variables the program has not yet set
NotYet ==
    /\ width = 0 /\ n_pixels = 0
    /\ image = << >> /\ reverse = << >>
    /\ rp = 0 /\ point_index = 0
    /\ px = 0 /\ py = 0 /\ ret = 0
    /\ emitted = << >>
    /\ failed = "none"
    /\ clicked = << >>

Init ==
    /\ pc = "alloc"
    /\ asserts_enabled \in BOOLEAN
    /\ input_length \in 0 .. MaxN
    /\ width_log2 = 0
    /\ n_rules = 0 /\ rules = << >> /\ depth = 0
    /\ stack = << >> /\ state = 0
    /\ x = 0 /\ y = 0 /\ direction = 0
    /\ NotYet

Next ==
    \/ AllocStep
    \/ AllocDone
    \/ BuildInit
    \/ NextCoord
    \/ BuilderStore
    \/ BuilderAssertFail
    \/ BuilderStoreOutside
    \/ BuilderExit
    \/ Click

Spec == Init /\ [][Next]_vars

----------------------------------------------------------------------------
(* Grid sizing alone, for every input_length up to MaxAllocN               *)

InitAlloc ==
    /\ pc = "alloc"
    /\ asserts_enabled = TRUE
    /\ input_length \in 0 .. MaxAllocN
    /\ width_log2 = 0
    /\ n_rules = 0 /\ rules = << >> /\ depth = 0
    /\ stack = << >> /\ state = 0
    /\ x = 0 /\ y = 0 /\ direction = 0
    /\ NotYet

NextAlloc ==
    \/ AllocStep
    \/ AllocDone

SpecAlloc == InitAlloc /\ [][NextAlloc]_vars

\* input lengths around 2^26 .. 2^30: files of 200 MB to 3 GB
LargeLengths == {2 ^ k + d : k \in 26 .. 30, d \in (0 - 1) .. 1}

InitAllocLarge ==
    /\ pc = "alloc"
    /\ asserts_enabled = TRUE
    /\ input_length \in LargeLengths
    /\ width_log2 = 0
    /\ n_rules = 0 /\ rules = << >> /\ depth = 0
    /\ stack = << >> /\ state = 0
    /\ x = 0 /\ y = 0 /\ direction = 0
    /\ NotYet

SpecAllocLarge == InitAllocLarge /\ [][NextAlloc]_vars

----------------------------------------------------------------------------
(* The engine alone: lindenmayer_system_init with the rules of main and    *)
(* any depth, then lindenmayer_system_next_coord called again and again    *)

\* lindenmayer_system_init, lines 119-130
InitEngine ==
    /\ pc = "call"
    /\ asserts_enabled = TRUE
    /\ input_length = 0 /\ width_log2 = 0
    /\ n_rules = Len(HilbertRules)
    /\ rules = HilbertRules
    /\ depth \in 0 .. MaxDepth
    /\ stack = << >> /\ state = 0
    /\ x = 0 /\ y = 0 /\ direction = 0
    /\ NotYet

\* the caller takes the result and calls again
CallAgain ==
    /\ pc = "ret"
    /\ pc' = "call"
    /\ UNCHANGED <<asserts_enabled, mainVars, gridVars, px, py, ret, lsysVars,
                   emitted, failed, clicked>>

NextEngine ==
    \/ NextCoord
    \/ NextCoordExhausted
    \/ CallAgain

SpecEngine == InitEngine /\ [][NextEngine]_vars

\* the program is sequential and nothing stops it: a step that can be taken is taken
FairSpecEngine == SpecEngine /\ WF_vars(NextEngine)

----------------------------------------------------------------------------
(* The engine on other rule tables: lindenmayer_system_init takes any      *)
(* rules; the tables below hold an invoke of a rule that is not there and  *)
(* ops that are none of '^', '+', '-', digit.                              *)

\* largest depth of the engine in this specification
MaxGrammarDepth == 2

RulesBadInvoke == << <<"^", "2", "^">>, <<"^">> >>
RulesBadOp == << <<"^", "x", "^">> >>
RulesBadOpLow == << <<"!", "^">> >>

GrammarTables == {HilbertRules, RulesBadInvoke, RulesBadOp, RulesBadOpLow}

\* lindenmayer_system_init, lines 119-130: no rule is looked at
InitGrammar ==
    /\ pc = "call"
    /\ asserts_enabled \in BOOLEAN
    /\ input_length = 0 /\ width_log2 = 0
    /\ rules \in GrammarTables
    /\ n_rules = Len(rules)
    /\ depth \in 0 .. MaxGrammarDepth
    /\ stack = << >> /\ state = 0
    /\ x = 0 /\ y = 0 /\ direction = 0
    /\ NotYet

NextGrammar ==
    \/ NextCoord
    \/ NextCoordExhausted
    \/ LoopAssertRuleIndex
    \/ LoopAssertOp
    \/ CallAgain

SpecGrammar == InitGrammar /\ [][NextGrammar]_vars

----------------------------------------------------------------------------
(* The Hilbert Direct Mapper.  src/uncurl.c holds no such function; this   *)
(* is the transform of section 4.2 of the specification.                   *)

\* the rotation applied when ry = 0: swap x and y and, when rx = 1, reflect
\* both about s-1
HilbertRotate(s, rx, ry, p) ==
    IF ry = 0
    THEN IF rx = 1
         THEN <<s - 1 - p[2], s - 1 - p[1]>>
         ELSE <<p[2], p[1]>>
    ELSE p

RECURSIVE HilbertLevels(_, _, _, _)
\* s: the scale, t: what remains of the index, p: <<x, y>> so far
HilbertLevels(s, t, p, w) ==
    IF s >= w THEN p
    ELSE LET rx == (t \div 2) % 2
             ry == (t + rx) % 2
             q  == HilbertRotate(s, rx, ry, p)
         IN  HilbertLevels(2 * s, t \div 4, <<q[1] + s * rx, q[2] + s * ry>>, w)

\* the cell of index i on the grid of width 2^wl2
HilbertD2XY(i, wl2) == HilbertLevels(1, i, <<0, 0>>, Shl1(wl2))

----------------------------------------------------------------------------
(* Properties                                                              *)

\* number of cells of the grid of width 2^wl2
CellCount(wl2) == Shl1(2 * wl2)

Abs(a) == IF a < 0 THEN 0 - a ELSE a

Manhattan(p, q) == Abs(p[1] - q[1]) + Abs(p[2] - q[2])

\* the cells next_coord has emitted so far, as image indices on the grid of main
EmittedCell(i) == ImageIndex(emitted[i][1], emitted[i][2], width_log2)

\* C1: with the rules of main and depth = width_log2, for every width_log2
\* from 0 on, the engine emits exactly the cells HilbertD2XY gives for
\* i = 0 .. width^2-1: the i-th coordinate emitted is HilbertD2XY(i), no
\* coordinate is emitted beyond index width^2-1, and when the engine is
\* exhausted width^2 coordinates have been emitted.
C1_EngineEqualsHilbert ==
    /\ Len(emitted) <= CellCount(depth)
    /\ \A i \in 1 .. Len(emitted) : emitted[i] = HilbertD2XY(i - 1, depth)
    /\ state = 2 => Len(emitted) = CellCount(depth)

\* C2: for width_log2 >= 1 (depth = width_log2) no coordinate is emitted
\* twice, every coordinate lies on the width x width grid, and when the
\* engine is exhausted width^2 coordinates were emitted and every cell of the
\* grid is among them.
C2_Bijective ==
    depth >= 1 =>
        /\ \A i \in 1 .. Len(emitted) :
              /\ CoordInRange(emitted[i][1], Shl1(depth))
              /\ CoordInRange(emitted[i][2], Shl1(depth))
        /\ \A i \in 1 .. Len(emitted) - 1 : emitted[i] # emitted[Len(emitted)]
        /\ state = 2 =>
              /\ Len(emitted) = CellCount(depth)
              /\ \A cx \in 0 .. Shl1(depth) - 1, cy \in 0 .. Shl1(depth) - 1 :
                    \E i \in 1 .. Len(emitted) : emitted[i] = <<cx, cy>>

C2_Witness ==
    /\ depth = 2
    /\ state = 2
    /\ Len(emitted) = 16
    /\ emitted[16] = <<3, 0>>

\* C3: any two coordinates emitted one after the other, the origin and the
\* first move included, are at Manhattan distance 1, and the coordinate
\* emitted last is the position of the engine.
C3_Locality ==
    /\ \A i \in 1 .. Len(emitted) - 1 : Manhattan(emitted[i], emitted[i + 1]) = 1
    /\ Len(emitted) >= 1 => emitted[Len(emitted)] = <<x, y>>

C3_Witness ==
    /\ depth = 3
    /\ pc = "ret"
    /\ ret = 1
    /\ Len(emitted) = 2
    /\ emitted[1] = <<0, 0>>
    /\ Manhattan(emitted[1], emitted[2]) = 1

\* C4: round trip: for every index i the loop of main has stored, the click
\* lookup of the cell emitted for i yields i; and when the loop has ended
\* every i in [0, input_length) has been stored.
C4_RoundTrip ==
    /\ \A i \in 0 .. point_index - 1 :
          ClickLookup(2 * emitted[i + 1][1], 2 * emitted[i + 1][2])
              = [hit |-> TRUE, index |-> i]
    /\ pc = "built" /\ input_length >= 1 => point_index >= input_length

C4_Witness ==
    /\ pc = "built"
    /\ input_length = 7
    /\ clicked # << >>
    /\ clicked[1].hit
    /\ clicked[1].index = 6
    /\ <<clicked[1].lx2, clicked[1].ly2>> = <<2 * emitted[7][1], 2 * emitted[7][2]>>

\* C5: for every input_length >= 1 every coordinate the engine emits lies on
\* the grid, its image index lies in [0, n_pixels), and no assert of the
\* loop of main fails.
C5_GenerationCannotFail ==
    input_length >= 1 =>
        /\ failed = "none"
        /\ pc # "aborted"
        /\ pc # "corrupt"
        /\ \A i \in 1 .. Len(emitted) :
              /\ CoordInRange(emitted[i][1], width)
              /\ CoordInRange(emitted[i][2], width)
              /\ IndexInRange(EmittedCell(i), n_pixels)

\* C6: when the loop of main has ended, every cell that was not emitted for
\* an i in [0, input_length) holds UNSET, and with input_length < n_pixels
\* exactly input_length cells are set.
C6_CellsBeyondNStayUnset ==
    pc = "built" /\ input_length >= 1 =>
        /\ \A c \in 0 .. n_pixels - 1 :
              (\A i \in 1 .. input_length : EmittedCell(i) # c) => reverse[c] = UNSET
        /\ input_length < n_pixels =>
              Cardinality({c \in 0 .. n_pixels - 1 : reverse[c] # UNSET}) = input_length

\* C7: the loop of main takes exactly the steps i = 0 .. input_length-1: no
\* element at or behind input_length is read from data or copied into the
\* image, and the element copied at step i is element i.
C7_ReadsOnlyTheInput ==
    input_length >= 1 =>
        /\ rp <= input_length
        /\ point_index <= input_length
        /\ rp = point_index
        /\ \A c \in DOMAIN image :
              image[c] # BLANK => image[c] < input_length /\ image[c] = reverse[c]

\* C8: for every input_length in [1, MaxAllocN] the grid sizing ends with
\* width = 2^width_log2, n_pixels = width^2, width^2 >= input_length and
\* (width / 2)^2 < input_length; input_length = 100 gives width_log2 = 4,
\* width = 16.
C8_SmallestPowerOfTwoGrid ==
    pc = "init" /\ input_length >= 1 =>
        /\ width = 2 ^ width_log2
        /\ n_pixels = width * width
        /\ width * width >= input_length
        /\ (width \div 2) * (width \div 2) < input_length
        /\ input_length = 100 => width_log2 = 4 /\ width = 16

C8_Witness ==
    /\ pc = "init"
    /\ input_length = 100
    /\ width_log2 = 4
    /\ width = 16
    /\ n_pixels = 256

\* C9: in every state of the engine, for every depth from 0 on, the stack
\* height is at most depth.
C9_StackWithinDepth == stack_height <= depth

\* the emissions an engine of depth d makes at most
EmissionBound(d) == IF d = 0 THEN 4 ELSE CellCount(d)

\* C10: for every depth in 0 .. MaxDepth every call of next_coord that
\* enters the interpreter loop returns, the engine eventually is exhausted,
\* and it never emits more than EmissionBound(depth) coordinates.
C10_Terminates ==
    /\ [](pc = "loop" => <>(pc = "ret"))
    /\ <>(state = 2)
    /\ [](Len(emitted) <= EmissionBound(depth))

C10_Witness ==
    /\ depth = 1
    /\ state = 2
    /\ pc = "ret"
    /\ ret = 0
    /\ Len(emitted) = 4

\* C11: exhaustion is absorbing: whenever next_coord has returned 0 the
\* engine is in state 2 with an empty stack, and from state 2 on no step
\* changes state, stack, position or direction or emits a coordinate, and
\* every return is a return of 0.
C11_ExhaustedAbsorbing ==
    /\ [](pc = "ret" /\ ret = 0 => state = 2 /\ stack = << >>)
    /\ [][state = 2 =>
            /\ state' = 2
            /\ stack' = stack
            /\ <<x', y', direction'>> = <<x, y, direction>>
            /\ emitted' = emitted
            /\ <<px', py'>> = <<px, py>>
            /\ ret' = 0]_vars

\* the caller got 0 from an exhausted engine and is about to call it again
C11_Witness ==
    /\ pc = "call"
    /\ state = 2
    /\ ret = 0
    /\ stack = << >>
    /\ depth = 2
    /\ Len(emitted) = 16

\* the coordinates of the 2 x 2 curve
Canon4 == << <<0, 0>>, <<0, 1>>, <<1, 1>>, <<1, 0>> >>

\* C14: for input_length = 4 the grid sizing gives width = 2 and
\* n_pixels = 4, the engine runs with depth 1, what it has emitted is always
\* a prefix of (0,0), (0,1), (1,1), (1,0), and when the loop of main has
\* ended it has emitted all four and is exhausted.
C14_FourElements ==
    input_length = 4 =>
        /\ pc # "alloc" => width = 2 /\ n_pixels = 4 /\ width_log2 = 1
        /\ pc \notin {"alloc", "init"} => depth = 1
        /\ Len(emitted) <= 4
        /\ emitted = SubSeq(Canon4, 1, Len(emitted))
        /\ pc = "built" => emitted = Canon4 /\ state = 2 /\ ret = 0

C14_Witness ==
    /\ input_length = 4
    /\ pc = "built"
    /\ width = 2
    /\ n_pixels = 4
    /\ emitted = Canon4
    /\ state = 2

\* C15: a fresh engine (state 0) has emitted nothing, has an empty stack and
\* is at (0,0) facing direction 0; its first call returns 1 with the origin,
\* leaves the single frame {rule_index 0, pc 0}, sets state 1 and runs no
\* op; state 0 is never entered again.
C15_FirstCall ==
    /\ [](state = 0 =>
            /\ emitted = << >>
            /\ stack = << >>
            /\ <<x, y, direction>> = <<0, 0, 0>>)
    /\ [][state = 0 /\ pc = "call" =>
            /\ state' = 1
            /\ stack' = <<[rule_index |-> 0, pc |-> 0]>>
            /\ ret' = 1
            /\ <<px', py'>> = <<0, 0>>
            /\ emitted' = << <<0, 0>> >>
            /\ <<x', y', direction'>> = <<0, 0, 0>>
            /\ pc' = "ret"]_vars
    /\ [][state # 0 => state' # 0]_vars

C15_Witness ==
    /\ depth = 0
    /\ state = 1
    /\ pc = "ret"
    /\ ret = 1
    /\ emitted = << <<0, 0>> >>
    /\ stack = <<[rule_index |-> 0, pc |-> 0]>>
    /\ <<x, y, direction>> = <<0, 0, 0>>

\* the interpreter is about to run the op at the pc of the top frame
AtOp == pc = "loop" /\ stack_height > 0 /\ ~FrameDone(Top)

\* the frames below the top are the same after the step
LowerFramesKept == \A i \in 1 .. stack_height - 1 : stack'[i] = stack[i]

\* nothing is emitted and position and direction stay
NoEmissionNoMove ==
    /\ emitted' = emitted
    /\ <<px', py'>> = <<px, py>>
    /\ <<x', y'>> = <<x, y>>
    /\ pc' = "loop"

\* C16: an invoke of rule k run with the stack below depth pushes the frame
\* {rule_index k, pc 0} and leaves the invoking frame as it is; run with the
\* stack at (or above) depth it only adds one to the pc of the top frame.
\* Either way nothing is emitted and position, direction and the lower
\* frames are unchanged.
C16_InvokeEffect ==
    [][AtOp /\ OpAt(Top) \in Digits =>
          /\ IF stack_height < depth
             THEN /\ Len(stack') = stack_height + 1
                  /\ stack'[stack_height + 1]
                        = [rule_index |-> DigitValue(OpAt(Top)), pc |-> 0]
                  /\ stack'[stack_height] = Top
             ELSE /\ Len(stack') = stack_height
                  /\ stack'[stack_height]
                        = [rule_index |-> Top.rule_index, pc |-> Top.pc + 1]
          /\ LowerFramesKept
          /\ NoEmissionNoMove
          /\ direction' = direction]_vars

\* right after the first push: rule 0 invoked rule 1 at its pc 1
C16_Witness ==
    /\ depth = 2
    /\ pc = "loop"
    /\ stack = <<[rule_index |-> 0, pc |-> 1], [rule_index |-> 1, pc |-> 0]>>
    /\ Len(emitted) = 1

\* C17: a top frame whose pc has reached its rule's length is popped and the
\* pc of the frame below, which stands at the invoke of the popped rule,
\* goes up by one; nothing is emitted, position and direction stay. When
\* the stack is empty after the pop the same call goes on to set state 2 and
\* return 0.
C17_PopEffect ==
    /\ [][pc = "loop" /\ stack_height > 0 /\ FrameDone(Top) =>
            /\ Len(stack') = stack_height - 1
            /\ stack_height > 1 =>
                  /\ OpAt(stack[stack_height - 1]) \in Digits
                  /\ DigitValue(OpAt(stack[stack_height - 1])) = Top.rule_index
                  /\ stack'[stack_height - 1]
                        = [rule_index |-> stack[stack_height - 1].rule_index,
                           pc |-> stack[stack_height - 1].pc + 1]
                  /\ \A i \in 1 .. stack_height - 2 : stack'[i] = stack[i]
            /\ NoEmissionNoMove
            /\ direction' = direction
            /\ state' = state]_vars
    /\ [][pc = "loop" /\ stack_height = 0 =>
            /\ state' = 2
            /\ ret' = 0
            /\ pc' = "ret"
            /\ emitted' = emitted]_vars
    /\ [](state = 1 /\ stack_height = 0 => pc = "loop")

\* the last frame has just been popped, the call has not yet returned
C17_Witness ==
    /\ depth = 3
    /\ pc = "loop"
    /\ state = 1
    /\ stack = << >>
    /\ Len(emitted) = 64

\* C18: the direction is always one of 0, 1, 2, 3; '+' replaces d by
\* (d+1) mod 4 and '-' by (d+3) mod 4, adds one to the pc of the top frame,
\* emits nothing and leaves position and stack height; no other step
\* changes the direction.
C18_Direction ==
    /\ [](direction \in 0 .. 3)
    /\ [][AtOp /\ OpAt(Top) \in {"+", "-"} =>
            /\ direction' = IF OpAt(Top) = "+"
                            THEN (direction + 1) % 4
                            ELSE (direction + 3) % 4
            /\ Len(stack') = stack_height
            /\ stack'[stack_height]
                  = [rule_index |-> Top.rule_index, pc |-> Top.pc + 1]
            /\ LowerFramesKept
            /\ NoEmissionNoMove]_vars
    /\ [][direction' # direction => AtOp /\ OpAt(Top) \in {"+", "-"}]_vars

\* after "+ ^ - ^ -" of rule 0 the direction has gone 1, 0, 3
C18_Witness ==
    /\ depth = 1
    /\ pc = "loop"
    /\ direction = 3
    /\ Len(emitted) = 3
    /\ stack = <<[rule_index |-> 0, pc |-> 8]>>

\* C20: a click yields an index only for 0 <= lx < width and
\* 0 <= ly < width, and the index is then the reverse entry of the cell
\* (floor(lx), floor(ly)); a click with lx or ly negative, or at or beyond
\* width, yields nothing.
C20_ClickInsideGridOnly ==
    clicked # << >> =>
        LET c == clicked[1]
            inside == /\ 0 <= c.lx2 /\ c.lx2 < 2 * width
                      /\ 0 <= c.ly2 /\ c.ly2 < 2 * width
        IN  /\ c.hit => inside
            /\ c.hit => c.index = reverse[ImageIndex(c.lx2 \div 2, c.ly2 \div 2,
                                                     width_log2)]
            /\ ~inside => ~c.hit

\* every op of the table rs is '^', '+', '-' or a digit, and every digit
\* names a rule of rs
GrammarValid(rs) ==
    \A r \in 1 .. Len(rs) : \A i \in 1 .. Len(rs[r]) :
        /\ rs[r][i] \in OwnCase \cup Digits
        /\ rs[r][i] \in Digits => DigitValue(rs[r][i]) < Len(rs)

\* the frame names a rule of the table
NamesARule(e) == 0 <= e.rule_index /\ e.rule_index < n_rules

\* the op is '^', '+', '-' or a digit
KnownOp(op) == op \in {"^", "+", "-", "0", "1", "2", "3", "4", "5", "6", "7", "8", "9"}

\* C12 as claimed: on a rule table that is not valid no call of next_coord
\* ever emits a coordinate, the origin included.
C12_InvalidGrammarNeverEmits ==
    ~GrammarValid(rules) => emitted = << >> /\ state = 0

\* C12 as amended: on a rule table that is not valid the engine is set up
\* all the same and its first call emits the origin. In a build with
\* assert() a frame that names no rule, or an op that is none of '^', '+',
\* '-', digit, makes the call that reaches it abort, with no effect of its
\* own on stack and output; nothing else stops the engine, and an abort
\* comes only after the origin was emitted.
C12_InvalidGrammarFoundWhenReached ==
    /\ [](~GrammarValid(rules) /\ state >= 1 =>
            Len(emitted) >= 1 /\ emitted[1] = <<0, 0>>)
    /\ [](pc = "aborted" =>
            /\ ~GrammarValid(rules)
            /\ asserts_enabled
            /\ state = 1
            /\ Len(emitted) >= 1
            /\ stack_height > 0
            /\ failed # "none"
            /\ ~NamesARule(Top) \/ ~KnownOp(OpAt(Top)))
    /\ [](asserts_enabled =>
            \A i \in 1 .. stack_height - 1 : NamesARule(stack[i]))
    /\ [][/\ asserts_enabled
          /\ pc = "loop"
          /\ stack_height > 0
          /\ IF NamesARule(Top)
             THEN ~FrameDone(Top) /\ ~KnownOp(OpAt(Top))
             ELSE TRUE
          => /\ pc' = "aborted"
             /\ stack' = stack
             /\ emitted' = emitted]_vars

\* rule 0 = "^x^" with assert(): aborted at the 'x', after two emissions
C12_Witness ==
    /\ rules = RulesBadOp
    /\ pc = "aborted"
    /\ failed = "'0' <= op && op <= '9'"
    /\ emitted = << <<0, 0>>, <<1, 0>> >>
    /\ stack = <<[rule_index |-> 0, pc |-> 1]>>

\* C19: with the rules of main and any depth in 0 .. MaxDepth, every frame
\* on the stack names a rule and has 0 <= pc <= the rule's length, every op
\* that is run is '^', '+', '-' or a digit, the stack height is at least 1
\* where an op is run and never above the capacity of 256, the direction is
\* in 0..3 and the loop runs only in state 1: no assert of next_coord fails.
C19_EngineAssertsHold ==
    /\ n_rules <= StackCapacity
    /\ \A i \in 1 .. stack_height :
          /\ NamesARule(stack[i])
          /\ 0 <= stack[i].pc
          /\ stack[i].pc <= Len(rules[stack[i].rule_index + 1])
    /\ AtOp => KnownOp(OpAt(Top))
    /\ AtOp /\ OpAt(Top) \in Digits /\ stack_height < depth
          => stack_height < StackCapacity
    /\ stack_height <= StackCapacity
    /\ direction \in 0 .. 3
    /\ pc = "loop" => state = 1
    /\ pc # "aborted"
    /\ failed = "none"

\* deepest point of the deepest engine: a frame on every level
C19_Witness ==
    /\ depth = MaxDepth
    /\ stack_height = MaxDepth
    /\ AtOp
    /\ OpAt(Top) \in Digits
    /\ Top.pc = 9

\* C13: the grid sizing never goes on with a width_log2 whose cell count
\* 2^(2*width_log2) does not fit a signed 32-bit int: every shift the loop
\* computes has a count below 31, and a finished sizing has
\* n_pixels = 2^(2*width_log2) >= input_length with 2*width_log2 < 31.
C13_NoOverflowedGrid ==
    /\ pc = "alloc" => 2 * width_log2 < IntBits - 1
    /\ pc = "init" =>
          /\ 2 * width_log2 < IntBits - 1
          /\ width = 2 ^ width_log2
          /\ n_pixels = width * width
          /\ n_pixels >= input_length

====
